---- MODULE Spec2Model ----
(***************************************************************************)
(* Model of src/src/components/EditDialog.vue: the EditDialog component    *)
(* (lines 1-256, the modal form) and the table screen that hosts it (lines *)
(* 258-490: the record collection, pagination, add / edit / delete).       *)
(*                                                                         *)
(* Every event handler of the two components is one action.  A handler     *)
(* runs to completion on the event loop; the only suspension point that    *)
(* waits for the user is `await ElMessageBox.confirm` in handleDelete, so  *)
(* that handler is split in its request and its accept / decline part.     *)
(* formRef.validate() settles in the microtasks of the click that started  *)
(* it, so handleConfirm is one action.  emit() calls the listener          *)
(* synchronously: handleDialogConfirm and the v-model:visible update are   *)
(* part of the dialog action that emits.                                   *)
(*                                                                         *)
(* No handler of the source looks at whether the dialog or a confirmation  *)
(* is open, so the model lets every handler run whenever its control is    *)
(* rendered (a row's buttons while the row is on the current page, the     *)
(* dialog's controls while the dialog is visible).                         *)
(* SpecClosing adds one click to that: the submit button pressed once more *)
(* right after the handler that closed the dialog, while el-dialog's leave *)
(* transition still shows it.                                              *)
(*                                                                         *)
(* Strings: the status values '启用' / '禁用' are written "enabled" /        *)
(* "disabled", the mock name '飞行器' is written "feixingqi".               *)
(***************************************************************************)
EXTENDS Integers, Sequences, FiniteSets, Bags, TLC

VARIABLES
    tableData,        \* ref<TableItem[]>, the record collection
    dialogVisible,    \* ref(false)
    currentEditData,  \* ref<EditFormData | null>: <<>> is null, <<r>> is r
    dialogMode,       \* ref<DialogMode>('add')
    pagination,       \* reactive({currentPage, pageSize, jumpPage})
    pendingDelete,    \* bag of row ids whose handleDelete awaits the confirmation
    form,             \* the dialog's draft, ref<EditFormData>
    formInitial,      \* el-form's initial field values: <<>> until the form is mounted
    lastOp,           \* name of the handler that ran last
    lastArg,          \* its argument: a row id, a page, a page size; 0 when it has none
    messages,         \* the ElMessage notifications of the handler that ran last
    emitted,          \* the events the dialog emitted in the handler that ran last
    nStarted,         \* number of dialogs and delete confirmations opened so far
    nTyped            \* number of draft inputs so far

vars == <<tableData, dialogVisible, currentEditData, dialogMode, pagination,
          pendingDelete, form, formInitial, lastOp, lastArg, messages, emitted,
          nStarted, nTyped>>

-----------------------------------------------------------------------------
(* Bounds of the model *)

\* dialogs opened plus delete confirmations asked for in one run
MaxStarted == 2

\* inputs into the draft in one run
MaxTyped == 2

\* the page-jump input takes the values 0..MaxJump
MaxJump == 2

-----------------------------------------------------------------------------
(* Program constants *)

\* id?: number -- an absent id
NoId == 0

maxLength == 50

pageSizeOptions == {10, 20, 50, 100}

initialPageSize == 2

Item(i, s, st) ==
    [id |-> i, categoryNameZh |-> "feixingqi",
     categoryNameEn |-> "combat flight control", sortOrder |-> s, status |-> st]

initialTableData ==
    << Item(2356, 1, "enabled"), Item(2645, 2, "enabled"),
       Item(2632, 3, "disabled"), Item(2630, 6, "enabled"),
       Item(2662, 5, "enabled"), Item(2699, 4, "enabled"),
       Item(2369, 9, "enabled"), Item(2586, 11, "enabled") >>

defaultForm ==
    [id |-> NoId, categoryNameZh |-> "", categoryNameEn |-> "",
     sortOrder |-> 1, status |-> "enabled"]

\* what the user puts in the draft's fields (0: the number input cleared)
NameZhInputs == {"X"}
NameEnInputs == {"Y"}
SortOrderInputs == {0}
StatusInputs == {"disabled"}

\* the page sizes the user picks in the select, among pageSizeOptions
SizeInputs == {10, 20}

-----------------------------------------------------------------------------
(* Pure helpers *)

Max(a, b) == IF a >= b THEN a ELSE b
Min(a, b) == IF a <= b THEN a ELSE b

\* Math.ceil(a / b) for a >= 0, b > 0
Ceil(a, b) == (a + b - 1) \div b

RECURSIVE MaxOf(_, _)
\* Math.max(...ids, floor)
MaxOf(ids, floor) ==
    IF ids = <<>> THEN floor
    ELSE MaxOf(Tail(ids), Max(Head(ids), floor))

Ids(td) == [k \in 1..Len(td) |-> td[k].id]

\* Array.prototype.findIndex(item => item.id === id), 1-based; 0 when absent
findIndex(td, id) ==
    IF \E k \in 1..Len(td) : td[k].id = id
    THEN CHOOSE k \in 1..Len(td) :
            td[k].id = id /\ \A j \in 1..(k-1) : td[j].id # id
    ELSE 0

\* Array.prototype.splice(index, 1), 1-based
splice(td, k) == SubSeq(td, 1, k-1) \o SubSeq(td, k+1, Len(td))

\* Array.prototype.slice(start, end), 0-based half-open; a negative index
\* counts from the end, an index past the end is the end
sliceIndex(td, i) == IF i < 0 THEN Max(Len(td) + i, 0) ELSE Min(i, Len(td))

slice(td, start, end) ==
    SubSeq(td, sliceIndex(td, start) + 1, sliceIndex(td, end))

total(td) == Len(td)

paginatedData(td, pg) ==
    LET start == (pg.currentPage - 1) * pg.pageSize
        end == start + pg.pageSize
    IN slice(td, start, end)

totalPages(td, pg) == Ceil(total(td), pg.pageSize)

-----------------------------------------------------------------------------
(* EditDialog *)

Fields(f) ==
    [categoryNameZh |-> f.categoryNameZh, categoryNameEn |-> f.categoryNameEn,
     sortOrder |-> f.sortOrder, status |-> f.status]

\* mutant: in add mode relies on the reset of the last close
initFormStale(mode, formData) ==
    IF mode = "edit" /\ formData # <<>>
    THEN [id |-> formData[1].id,
          categoryNameZh |-> formData[1].categoryNameZh,
          categoryNameEn |-> formData[1].categoryNameEn,
          sortOrder |-> IF formData[1].sortOrder = 0 THEN 1 ELSE formData[1].sortOrder,
          status |-> IF formData[1].status = "" THEN "enabled" ELSE formData[1].status]
    ELSE form

initForm(mode, formData) ==
    IF mode = "edit" /\ formData # <<>>
    THEN [id |-> formData[1].id,
          categoryNameZh |-> formData[1].categoryNameZh,
          categoryNameEn |-> formData[1].categoryNameEn,
          sortOrder |-> IF formData[1].sortOrder = 0 THEN 1 ELSE formData[1].sortOrder,
          status |-> IF formData[1].status = "" THEN "enabled" ELSE formData[1].status]
    ELSE defaultForm

\* el-form resetFields(): every field with a prop goes back to its initial value
resetForm(f, initial) ==
    IF initial = <<>> THEN f
    ELSE [id |-> f.id,
          categoryNameZh |-> initial[1].categoryNameZh,
          categoryNameEn |-> initial[1].categoryNameEn,
          sortOrder |-> initial[1].sortOrder,
          status |-> initial[1].status]

\* mutant: the sortOrder and length rules are left out
validateRequiredNames(f) ==
    /\ f.categoryNameZh # ""
    /\ f.categoryNameEn # ""
    /\ f.status # ""

\* the rules of the form, as formRef.validate() evaluates them
validate(f) ==
    /\ f.categoryNameZh # "" /\ Len(f.categoryNameZh) <= maxLength
    /\ f.categoryNameEn # "" /\ Len(f.categoryNameEn) <= maxLength
    /\ f.sortOrder >= 1
    /\ f.status # ""

-----------------------------------------------------------------------------
(* Table: commit handlers as functions of the state they read *)

\* mutant: takes the old record out and pushes the new one
editHandlerAppend(td, data) ==
    LET index == findIndex(td, data.id)
    IN IF index > 0
       THEN [td |-> Append(splice(td, index), data), msg |-> "success"]
       ELSE [td |-> td, msg |-> "error"]

\* mutant: pushes the data when no record has its id
editHandlerUpsert(td, data) ==
    LET index == findIndex(td, data.id)
    IN IF index > 0
       THEN [td |-> [td EXCEPT ![index] = data], msg |-> "success"]
       ELSE [td |-> Append(td, data), msg |-> "success"]

editHandler(td, data) ==
    LET index == findIndex(td, data.id)
    IN IF index > 0
       THEN [td |-> [td EXCEPT ![index] = data], msg |-> "success"]
       ELSE [td |-> td, msg |-> "error"]

\* mutant: forgets the "+ 1"
addNewIdNoIncrement(td) == MaxOf(Ids(td), 0)

\* mutant: numbers the new record by the length of the collection
addNewIdLength(td) == Len(td) + 1

addNewId(td) == MaxOf(Ids(td), 0) + 1

\* mutant: does not navigate to the last page
addHandlerStay(td, pg, data) ==
    LET newId == MaxOf(Ids(td), 0) + 1
        td2 == Append(td, [data EXCEPT !.id = newId])
    IN [td |-> td2, pg |-> pg, msg |-> "success"]

addHandler(td, pg, data) ==
    LET newId == addNewId(td)
        td2 == Append(td, [data EXCEPT !.id = newId])
        pages == Ceil(total(td2), pg.pageSize)
    IN [td |-> td2,
        pg |-> [pg EXCEPT !.currentPage = pages, !.jumpPage = pages],
        msg |-> "success"]

\* mutant: never steps back from an emptied page
deleteHandlerNoStepBack(td, pg, id) ==
    LET index == findIndex(td, id)
    IN IF index > 0
       THEN [td |-> splice(td, index), pg |-> pg, msgs |-> <<"success">>]
       ELSE [td |-> td, pg |-> pg, msgs |-> <<>>]

\* mutant: removes the first record, whatever the index found
deleteHandlerFirst(td, pg, id) ==
    LET index == findIndex(td, id)
        td2 == splice(td, 1)
    IN IF index > 0
       THEN [td |-> td2,
             pg |-> IF Len(paginatedData(td2, pg)) = 0 /\ pg.currentPage > 1
                    THEN [pg EXCEPT !.currentPage = pg.currentPage - 1,
                                    !.jumpPage = pg.currentPage - 1]
                    ELSE pg,
             msgs |-> <<"success">>]
       ELSE [td |-> td, pg |-> pg, msgs |-> <<>>]

\* mutant: goes back to the first page instead of the previous one
deleteHandlerStepToFirst(td, pg, id) ==
    LET index == findIndex(td, id)
        td2 == splice(td, index)
    IN IF index > 0
       THEN [td |-> td2,
             pg |-> IF Len(paginatedData(td2, pg)) = 0 /\ pg.currentPage > 1
                    THEN [pg EXCEPT !.currentPage = 1, !.jumpPage = 1]
                    ELSE pg,
             msgs |-> <<"success">>]
       ELSE [td |-> td, pg |-> pg, msgs |-> <<>>]

\* mutant: no `index > -1` test; splice(-1, 1) takes the last record out
deleteHandlerNoCheck(td, pg, id) ==
    LET index == findIndex(td, id)
        td2 == IF index > 0 THEN splice(td, index) ELSE splice(td, Len(td))
    IN [td |-> td2,
        pg |-> IF Len(paginatedData(td2, pg)) = 0 /\ pg.currentPage > 1
               THEN [pg EXCEPT !.currentPage = pg.currentPage - 1,
                               !.jumpPage = pg.currentPage - 1]
               ELSE pg,
        msgs |-> <<"success">>]

deleteHandler(td, pg, id) ==
    LET index == findIndex(td, id)
        td2 == splice(td, index)
    IN IF index > 0
       THEN [td |-> td2,
             pg |-> IF Len(paginatedData(td2, pg)) = 0 /\ pg.currentPage > 1
                    THEN [pg EXCEPT !.currentPage = pg.currentPage - 1,
                                    !.jumpPage = pg.currentPage - 1]
                    ELSE pg,
             msgs |-> <<"success">>]
       ELSE [td |-> td, pg |-> pg, msgs |-> <<>>]

-----------------------------------------------------------------------------

Init ==
    /\ tableData = initialTableData
    /\ dialogVisible = FALSE
    /\ currentEditData = <<>>
    /\ dialogMode = "add"
    /\ pagination = [currentPage |-> 1, pageSize |-> initialPageSize, jumpPage |-> 1]
    /\ pendingDelete = EmptyBag
    /\ form = defaultForm
    /\ formInitial = <<>>
    /\ lastOp = "setup"
    /\ lastArg = 0
    /\ messages = <<>>
    /\ emitted = <<>>
    /\ nStarted = 0
    /\ nTyped = 0

\* watch(() => props.visible): runs initForm when visible turns true; the
\* el-form mounts on the first open and records its fields' initial values
Open(mode, data) ==
    /\ nStarted < MaxStarted
    /\ nStarted' = nStarted + 1
    /\ dialogMode' = mode
    /\ currentEditData' = data
    /\ dialogVisible' = TRUE
    /\ IF dialogVisible
       THEN UNCHANGED <<form, formInitial>>
       ELSE /\ form' = initForm(mode, data)
            /\ formInitial' = IF formInitial = <<>> THEN <<Fields(form')>> ELSE formInitial

handleAdd ==
    /\ Open("add", <<>>)
    /\ lastOp' = "handleAdd"
    /\ lastArg' = 0
    /\ messages' = <<>>
    /\ emitted' = <<>>
    /\ UNCHANGED <<tableData, pagination, pendingDelete, nTyped>>

handleEdit(row) ==
    /\ Open("edit", <<row>>)
    /\ lastOp' = "handleEdit"
    /\ lastArg' = row.id
    /\ messages' = <<>>
    /\ emitted' = <<>>
    /\ UNCHANGED <<tableData, pagination, pendingDelete, nTyped>>

\* handleDelete up to `await ElMessageBox.confirm(...)`
handleDeleteRequest(row) ==
    /\ nStarted < MaxStarted
    /\ nStarted' = nStarted + 1
    /\ pendingDelete' = pendingDelete (+) SetToBag({row.id})
    /\ lastOp' = "handleDelete.request"
    /\ lastArg' = row.id
    /\ messages' = <<>>
    /\ emitted' = <<>>
    /\ UNCHANGED <<tableData, dialogVisible, currentEditData, dialogMode,
                   pagination, form, formInitial, nTyped>>

\* the confirmation resolves: the rest of the try block
handleDeleteConfirmed(id) ==
    /\ BagIn(id, pendingDelete)
    /\ pendingDelete' = pendingDelete (-) SetToBag({id})
    /\ LET r == deleteHandler(tableData, pagination, id)
       IN /\ tableData' = r.td
          /\ pagination' = r.pg
          /\ messages' = r.msgs
    /\ lastOp' = "handleDelete.confirmed"
    /\ lastArg' = id
    /\ emitted' = <<>>
    /\ UNCHANGED <<dialogVisible, currentEditData, dialogMode, form, formInitial,
                   nStarted, nTyped>>

\* mutant: the catch block falls through to the removal
handleDeleteDeclinedRemoves(id) ==
    /\ BagIn(id, pendingDelete)
    /\ pendingDelete' = pendingDelete (-) SetToBag({id})
    /\ LET r == deleteHandler(tableData, pagination, id)
       IN /\ tableData' = r.td
          /\ pagination' = r.pg
          /\ messages' = r.msgs
    /\ lastOp' = "handleDelete.declined"
    /\ lastArg' = id
    /\ emitted' = <<>>
    /\ UNCHANGED <<dialogVisible, currentEditData, dialogMode, form, formInitial,
                   nStarted, nTyped>>

\* the confirmation rejects: the empty catch block
handleDeleteDeclined(id) ==
    /\ BagIn(id, pendingDelete)
    /\ pendingDelete' = pendingDelete (-) SetToBag({id})
    /\ lastOp' = "handleDelete.declined"
    /\ lastArg' = id
    /\ messages' = <<>>
    /\ emitted' = <<>>
    /\ UNCHANGED <<tableData, dialogVisible, currentEditData, dialogMode,
                   pagination, form, formInitial, nStarted, nTyped>>

\* mutant: keeps the current page
handleSizeChangeKeepPage(val) ==
    /\ val # pagination.pageSize
    /\ pagination' = [pagination EXCEPT !.pageSize = val]
    /\ lastOp' = "handleSizeChange"
    /\ lastArg' = val
    /\ messages' = <<>>
    /\ emitted' = <<>>
    /\ UNCHANGED <<tableData, dialogVisible, currentEditData, dialogMode,
                   pendingDelete, form, formInitial, nStarted, nTyped>>

\* el-select's v-model writes pageSize, then @change runs the handler
handleSizeChange(val) ==
    /\ val # pagination.pageSize
    /\ pagination' = [pagination EXCEPT !.pageSize = val, !.currentPage = 1]
    /\ lastOp' = "handleSizeChange"
    /\ lastArg' = val
    /\ messages' = <<>>
    /\ emitted' = <<>>
    /\ UNCHANGED <<tableData, dialogVisible, currentEditData, dialogMode,
                   pendingDelete, form, formInitial, nStarted, nTyped>>

\* el-pagination reports a click on another page of [1, totalPages]
handleCurrentChange(val) ==
    /\ val # pagination.currentPage
    /\ pagination' = [pagination EXCEPT !.currentPage = val, !.jumpPage = val]
    /\ lastOp' = "handleCurrentChange"
    /\ lastArg' = val
    /\ messages' = <<>>
    /\ emitted' = <<>>
    /\ UNCHANGED <<tableData, dialogVisible, currentEditData, dialogMode,
                   pendingDelete, form, formInitial, nStarted, nTyped>>

\* v-model.number="pagination.jumpPage"
inputJumpPage(val) ==
    /\ val # pagination.jumpPage
    /\ pagination' = [pagination EXCEPT !.jumpPage = val]
    /\ lastOp' = "inputJumpPage"
    /\ lastArg' = val
    /\ messages' = <<>>
    /\ emitted' = <<>>
    /\ UNCHANGED <<tableData, dialogVisible, currentEditData, dialogMode,
                   pendingDelete, form, formInitial, nStarted, nTyped>>

\* mutant: checks only the lower end of the range
jumpAcceptedNoUpper(td, pg) == pg.jumpPage >= 1

jumpAccepted(td, pg) ==
    pg.jumpPage >= 1 /\ pg.jumpPage <= Ceil(total(td), pg.pageSize)

handleJump ==
    /\ pagination' = IF jumpAccepted(tableData, pagination)
                     THEN [pagination EXCEPT !.currentPage = pagination.jumpPage]
                     ELSE pagination
    /\ lastOp' = "handleJump"
    /\ lastArg' = 0
    /\ messages' = <<>>
    /\ emitted' = <<>>
    /\ UNCHANGED <<tableData, dialogVisible, currentEditData, dialogMode,
                   pendingDelete, form, formInitial, nStarted, nTyped>>

\* mutant: the draft is the row object itself, an input writes through to it
inputFormAliased(f) ==
    /\ dialogVisible
    /\ nTyped < MaxTyped
    /\ f # form
    /\ form' = f
    /\ tableData' = [k \in 1..Len(tableData) |->
                        IF tableData[k].id = f.id THEN f ELSE tableData[k]]
    /\ currentEditData' = IF currentEditData # <<>> /\ currentEditData[1].id = f.id
                          THEN <<f>> ELSE currentEditData
    /\ nTyped' = nTyped + 1
    /\ lastOp' = "inputForm"
    /\ lastArg' = 0
    /\ messages' = <<>>
    /\ emitted' = <<>>
    /\ UNCHANGED <<dialogVisible, dialogMode, pagination, pendingDelete,
                   formInitial, nStarted>>

\* v-model of one of the draft's four inputs
inputForm(f) ==
    /\ dialogVisible
    /\ nTyped < MaxTyped
    /\ f # form
    /\ form' = f
    /\ nTyped' = nTyped + 1
    /\ lastOp' = "inputForm"
    /\ lastArg' = 0
    /\ messages' = <<>>
    /\ emitted' = <<>>
    /\ UNCHANGED <<tableData, dialogVisible, currentEditData, dialogMode,
                   pagination, pendingDelete, formInitial, nStarted>>

\* handleClose: emit('update:visible', false) reaches v-model:visible; resetForm()
Close ==
    /\ dialogVisible' = FALSE
    /\ form' = resetForm(form, formInitial)

\* handleDialogConfirm(data): modeHandlers[dialogMode.value](data)
handleDialogConfirm(data) ==
    IF dialogMode = "edit"
    THEN LET r == editHandler(tableData, data)
         IN /\ tableData' = r.td
            /\ messages' = <<r.msg>>
            /\ UNCHANGED pagination
    ELSE LET r == addHandler(tableData, pagination, data)
         IN /\ tableData' = r.td
            /\ pagination' = r.pg
            /\ messages' = <<r.msg>>

\* mutant: closes (and resets the draft) before it emits confirm
handleConfirmEmitAfterClose ==
    /\ dialogVisible
    /\ IF validate(form)
       THEN /\ emitted' = << <<"update:visible", FALSE>>,
                             <<"confirm", resetForm(form, formInitial)>> >>
            /\ handleDialogConfirm(resetForm(form, formInitial))
            /\ Close
       ELSE /\ emitted' = <<>>
            /\ messages' = <<>>
            /\ UNCHANGED <<tableData, pagination, dialogVisible, form>>
    /\ lastOp' = "handleConfirm"
    /\ lastArg' = 0
    /\ UNCHANGED <<currentEditData, dialogMode, pendingDelete, formInitial, nStarted, nTyped>>

handleConfirm ==
    /\ dialogVisible
    /\ IF validate(form)
       THEN /\ emitted' = << <<"confirm", form>>, <<"update:visible", FALSE>> >>
            /\ handleDialogConfirm(form)
            /\ Close
       ELSE /\ emitted' = <<>>
            /\ messages' = <<>>
            /\ UNCHANGED <<tableData, pagination, dialogVisible, form>>
    /\ lastOp' = "handleConfirm"
    /\ lastArg' = 0
    /\ UNCHANGED <<currentEditData, dialogMode, pendingDelete, formInitial, nStarted, nTyped>>

\* mutant: cancel hands the draft to the table before it closes
handleCancelSaves ==
    /\ dialogVisible
    /\ emitted' = << <<"cancel">>, <<"confirm", form>>, <<"update:visible", FALSE>> >>
    /\ handleDialogConfirm(form)
    /\ Close
    /\ lastOp' = "handleCancel"
    /\ lastArg' = 0
    /\ UNCHANGED <<currentEditData, dialogMode, pendingDelete, formInitial, nStarted, nTyped>>

handleCancel ==
    /\ dialogVisible
    /\ emitted' = << <<"cancel">>, <<"update:visible", FALSE>> >>
    /\ Close
    /\ lastOp' = "handleCancel"
    /\ lastArg' = 0
    /\ messages' = <<>>
    /\ UNCHANGED <<tableData, currentEditData, dialogMode, pagination,
                   pendingDelete, formInitial, nStarted, nTyped>>

\* el-dialog's own close (the X button, Esc): @update:model-value="handleClose"
handleClose ==
    /\ dialogVisible
    /\ emitted' = << <<"update:visible", FALSE>> >>
    /\ Close
    /\ lastOp' = "handleClose"
    /\ lastArg' = 0
    /\ messages' = <<>>
    /\ UNCHANGED <<tableData, currentEditData, dialogMode, pagination,
                   pendingDelete, formInitial, nStarted, nTyped>>

VisibleRows == paginatedData(tableData, pagination)

Next ==
    \/ handleAdd
    \/ \E k \in 1..Len(VisibleRows) : handleEdit(VisibleRows[k])
    \/ \E k \in 1..Len(VisibleRows) : handleDeleteRequest(VisibleRows[k])
    \/ \E id \in BagToSet(pendingDelete) : handleDeleteConfirmed(id)
    \/ \E id \in BagToSet(pendingDelete) : handleDeleteDeclined(id)
    \/ \E val \in SizeInputs : handleSizeChange(val)
    \/ \E val \in 1..totalPages(tableData, pagination) : handleCurrentChange(val)
    \/ \E val \in 0..MaxJump : inputJumpPage(val)
    \/ handleJump
    \/ \E v \in NameZhInputs : inputForm([form EXCEPT !.categoryNameZh = v])
    \/ \E v \in NameEnInputs : inputForm([form EXCEPT !.categoryNameEn = v])
    \/ \E v \in SortOrderInputs : inputForm([form EXCEPT !.sortOrder = v])
    \/ \E v \in StatusInputs : inputForm([form EXCEPT !.status = v])
    \/ handleConfirm
    \/ handleCancel
    \/ handleClose

Spec == Init /\ [][Next]_vars

\* A further click on the submit button right after the handler that closed
\* the dialog: el-dialog keeps its content mounted and on screen while its
\* leave transition runs, and handleConfirm looks at formRef only, never at
\* props.visible.  The draft it validates is the one resetForm() left.
handleConfirmClosing ==
    /\ ~dialogVisible
    /\ formInitial # <<>>
    /\ lastOp \in {"handleConfirm", "handleCancel", "handleClose"}
    /\ IF validate(form)
       THEN /\ emitted' = << <<"confirm", form>>, <<"update:visible", FALSE>> >>
            /\ handleDialogConfirm(form)
            /\ Close
       ELSE /\ emitted' = <<>>
            /\ messages' = <<>>
            /\ UNCHANGED <<tableData, pagination, dialogVisible, form>>
    /\ lastOp' = "handleConfirm.closing"
    /\ lastArg' = 0
    /\ UNCHANGED <<currentEditData, dialogMode, pendingDelete, formInitial, nStarted, nTyped>>

NextClosing ==
    \/ Next
    \/ handleConfirmClosing

\* Spec with the submit button still taking a click while the dialog closes
SpecClosing == Init /\ [][NextClosing]_vars

-----------------------------------------------------------------------------
(* Vocabulary of the properties *)

IdSet(td) == {td[k].id : k \in 1..Len(td)}

\* the greatest element of a finite non-empty set of integers
Greatest(S) == CHOOSE m \in S : \A x \in S : m >= x

\* the step just taken is handleConfirm with a valid draft, in the given mode
CommitStep(mode) ==
    lastOp' = "handleConfirm" /\ emitted' # <<>> /\ dialogMode = mode

\* the state right after such a step (handleConfirm leaves dialogMode alone)
Committed(mode) ==
    lastOp = "handleConfirm" /\ emitted # <<>> /\ dialogMode = mode

\* the data the confirm event of the last step carried
CommittedData == emitted[1][2]

-----------------------------------------------------------------------------
(* C1: whenever the collection is non-empty, currentPage lies in           *)
(* [1, ceil(total / pageSize)] and the visible slice is not empty.         *)
C1_PageInRange ==
    Len(tableData) > 0 =>
        /\ 1 <= pagination.currentPage
        /\ pagination.currentPage <= Ceil(Len(tableData), pagination.pageSize)
        /\ Len(VisibleRows) > 0

\* a confirmed delete has emptied the last page and stepped back from page 4 to 3
C1_Witness ==
    /\ lastOp = "handleDelete.confirmed"
    /\ Len(tableData) = 6
    /\ pagination.pageSize = 2
    /\ pagination.currentPage = 3

(* C2: the records of the collection have pairwise distinct ids. *)
C2_UniqueIds ==
    \A i, j \in 1..Len(tableData) :
        tableData[i].id = tableData[j].id => i = j

\* an add-commit has put a ninth record in the collection
C2_Witness ==
    /\ Committed("add")
    /\ Len(tableData) = 9

(* C3: an add-commit appends exactly one record, at the end, whose id is   *)
(* max(existing ids, 0) + 1 and whose other fields are the committed       *)
(* data; the records already there keep their value and position.  So the  *)
(* id is 1 for the empty collection and 6 for ids 2, 5.                    *)
C3_AddAppends ==
    [][CommitStep("add") =>
        /\ Len(tableData') = Len(tableData) + 1
        /\ SubSeq(tableData', 1, Len(tableData)) = tableData
        /\ tableData'[Len(tableData')].id = Greatest(IdSet(tableData) \cup {0}) + 1
        /\ Fields(tableData'[Len(tableData')]) = Fields(emitted'[1][2])
        /\ Fields(emitted'[1][2]) = Fields(form)
        /\ addHandler(<<>>, pagination, form).td[1].id = 1
        /\ addHandler(<<Item(2, 1, "enabled"), Item(5, 1, "enabled")>>,
                      pagination, form).td[3].id = 6
      ]_vars

\* an add-commit on the eight initial records: the new record has id 2700
C3_Witness ==
    /\ Committed("add")
    /\ messages = <<"success">>
    /\ Len(tableData) = 9
    /\ tableData[9].id = 2700
    /\ tableData[9].categoryNameZh = "X"

(* C4: right after an add-commit currentPage is ceil(total / pageSize)     *)
(* and the new record, the last of the collection, is in the visible slice. *)
C4_AddShowsLastPage ==
    Committed("add") =>
        /\ pagination.currentPage = Ceil(Len(tableData), pagination.pageSize)
        /\ Len(tableData) > 0
        /\ \E k \in 1..Len(VisibleRows) : VisibleRows[k] = tableData[Len(tableData)]
        /\ \A k \in 1..Len(VisibleRows) :
              VisibleRows[k] =
                  tableData[(pagination.currentPage - 1) * pagination.pageSize + k]

\* an add-commit from page 1 of 4 has moved the table to page 5
C4_Witness ==
    /\ Committed("add")
    /\ pagination.pageSize = 2
    /\ pagination.currentPage = 5
    /\ Len(tableData) = 9

(* C5: an edit-commit whose data id is in the collection replaces the      *)
(* record with that id, at its index and with its id; the length, every    *)
(* other record and the order stay as they were.                           *)
C5_EditReplacesInPlace ==
    [][(CommitStep("edit") /\ emitted'[1][2].id \in IdSet(tableData)) =>
        LET data == emitted'[1][2]
        IN /\ Len(tableData') = Len(tableData)
           /\ \A k \in 1..Len(tableData) :
                 IF tableData[k].id = data.id
                 THEN /\ tableData'[k].id = tableData[k].id
                      /\ Fields(tableData'[k]) = Fields(data)
                 ELSE tableData'[k] = tableData[k]
           /\ messages' = <<"success">>
      ]_vars

\* the second mock record has been renamed "X" by an edit-commit
C5_Witness ==
    /\ Committed("edit")
    /\ messages = <<"success">>
    /\ Len(tableData) = 8
    /\ tableData[2].id = 2645
    /\ tableData[2].categoryNameZh = "X"
    /\ tableData[1] = initialTableData[1]

(* C6: an edit-commit whose data id is not in the collection reports an    *)
(* error, no success, and leaves the collection as it was.                 *)
C6_EditNotFound ==
    [][(CommitStep("edit") /\ emitted'[1][2].id \notin IdSet(tableData)) =>
        /\ messages' = <<"error">>
        /\ tableData' = tableData
      ]_vars

\* the record opened for edit was deleted before the commit
C6_Witness ==
    /\ Committed("edit")
    /\ messages = <<"error">>
    /\ CommittedData.id = 2356
    /\ 2356 \notin IdSet(tableData)
    /\ Len(tableData) = 7

(* C7: a confirmed delete of a row whose id is in the collection removes   *)
(* exactly the record with that id: one record less, no record with that   *)
(* id left, the others with their values and in their order.               *)
C7_DeleteRemovesRow ==
    [][(lastOp' = "handleDelete.confirmed" /\ lastArg' \in IdSet(tableData)) =>
        /\ Len(tableData') = Len(tableData) - 1
        /\ lastArg' \notin IdSet(tableData')
        /\ tableData' = SelectSeq(tableData, LAMBDA r : r.id # lastArg')
        /\ messages' = <<"success">>
      ]_vars

\* the second mock record has been deleted, the first and third are neighbours
C7_Witness ==
    /\ lastOp = "handleDelete.confirmed"
    /\ lastArg = 2645
    /\ Len(tableData) = 7
    /\ tableData[1].id = 2356
    /\ tableData[2].id = 2632

(* C8: after a confirmed delete has removed a record: if the slice of the  *)
(* current page is now empty and currentPage > 1, currentPage goes down by *)
(* exactly one and jumpPage equals it; otherwise currentPage is unchanged. *)
(* With ids 1, 2, 3, pageSize 2, currentPage 2, deleting 3 gives page 1.   *)
C8_DeleteStepsBack ==
    [][(lastOp' = "handleDelete.confirmed" /\ Len(tableData') < Len(tableData)) =>
        /\ IF /\ (pagination.currentPage - 1) * pagination.pageSize >= Len(tableData')
              /\ pagination.currentPage > 1
           THEN /\ pagination'.currentPage = pagination.currentPage - 1
                /\ pagination'.jumpPage = pagination'.currentPage
           ELSE pagination'.currentPage = pagination.currentPage
        /\ pagination'.pageSize = pagination.pageSize
        /\ deleteHandler(<<Item(1, 1, "enabled"), Item(2, 1, "enabled"),
                           Item(3, 1, "enabled")>>,
                         [currentPage |-> 2, pageSize |-> 2, jumpPage |-> 2],
                         3).pg.currentPage = 1
      ]_vars

\* the two records of page 4 are gone and the table went back to page 3
C8_Witness ==
    /\ lastOp = "handleDelete.confirmed"
    /\ messages = <<"success">>
    /\ IdSet(tableData) = IdSet(initialTableData) \ {2369, 2586}
    /\ pagination.currentPage = 3
    /\ pagination.jumpPage = 3

(* C9: asking for a delete and declining the confirmation leave the        *)
(* collection and currentPage, pageSize, jumpPage as they were, and report *)
(* neither a success nor an error.                                         *)
C9_DeclineIsNoOp ==
    [][lastOp' \in {"handleDelete.request", "handleDelete.declined"} =>
        /\ tableData' = tableData
        /\ pagination' = pagination
        /\ messages' = <<>>
      ]_vars

\* a delete was asked for and declined
C9_Witness ==
    /\ lastOp = "handleDelete.declined"
    /\ pendingDelete = EmptyBag
    /\ nStarted = 1
    /\ tableData = initialTableData

(* C10: a page-size change sets pageSize to the chosen value and           *)
(* currentPage to 1, and leaves the collection as it was.                  *)
C10_SizeChangeResetsPage ==
    [][lastOp' = "handleSizeChange" =>
        /\ pagination'.pageSize = lastArg'
        /\ pagination'.currentPage = 1
        /\ tableData' = tableData
      ]_vars

\* the page size was changed on page 4 (jumpPage still says 4)
C10_Witness ==
    /\ lastOp = "handleSizeChange"
    /\ pagination.pageSize = 10
    /\ pagination.currentPage = 1
    /\ pagination.jumpPage = 4

(* C11: a jump sets currentPage to jumpPage exactly when                     *)
(* 1 <= jumpPage <= ceil(total / pageSize); outside that range, and for     *)
(* every jumpPage when the collection is empty, currentPage stays; the      *)
(* collection stays and nothing is reported in either case.                 *)
C11_JumpInRangeOnly ==
    [][lastOp' = "handleJump" =>
        /\ IF /\ 1 <= pagination.jumpPage
              /\ pagination.jumpPage <= Ceil(Len(tableData), pagination.pageSize)
           THEN pagination'.currentPage = pagination.jumpPage
           ELSE pagination'.currentPage = pagination.currentPage
        /\ pagination'.pageSize = pagination.pageSize
        /\ pagination'.jumpPage = pagination.jumpPage
        /\ tableData' = tableData
        /\ messages' = <<>>
        /\ \A j \in 0..(MaxJump + 1) :
              ~jumpAccepted(<<>>, [pagination EXCEPT !.jumpPage = j])
      ]_vars

\* a jump to page 2 of a table that has one page of ten was ignored
C11_Witness ==
    /\ lastOp = "handleJump"
    /\ pagination.jumpPage = 2
    /\ pagination.pageSize = 10
    /\ pagination.currentPage = 1
    /\ Len(tableData) = 8

(* C12: in every reachable state, the initial one included, pageSize is    *)
(* one of the page sizes the select offers.                                *)
C12_PageSizeInOptions ==
    pagination.pageSize \in pageSizeOptions

(* C13: whenever the dialog goes from not visible to visible, the draft    *)
(* depends only on the mode and the initial data of that open: in add mode *)
(* it is {"", "", 1, enabled} without id; in edit mode with initial data   *)
(* it has the id and the fields of the initial data, an absent name read   *)
(* as "", an absent sortOrder as 1 and an absent status as enabled.        *)
C13_OpenInitialisesDraft ==
    [][(~dialogVisible /\ dialogVisible') =>
        /\ dialogMode' = "add" =>
              form' = [id |-> NoId, categoryNameZh |-> "", categoryNameEn |-> "",
                       sortOrder |-> 1, status |-> "enabled"]
        /\ (dialogMode' = "edit" /\ currentEditData' # <<>>) =>
              /\ form' = currentEditData'[1]
              /\ form'.id = lastArg'
        /\ initForm("edit", <<[id |-> 5, categoryNameZh |-> "A", categoryNameEn |-> "B",
                               sortOrder |-> 3, status |-> "enabled"]>>)
              = [id |-> 5, categoryNameZh |-> "A", categoryNameEn |-> "B",
                 sortOrder |-> 3, status |-> "enabled"]
        /\ initForm("edit", <<[id |-> 5, categoryNameZh |-> "", categoryNameEn |-> "",
                               sortOrder |-> 0, status |-> ""]>>)
              = [id |-> 5, categoryNameZh |-> "", categoryNameEn |-> "",
                 sortOrder |-> 1, status |-> "enabled"]
      ]_vars

\* the form was mounted by an edit session in which the user typed; the next
\* open, in add mode, shows the default draft
C13_Witness ==
    /\ lastOp = "handleAdd"
    /\ dialogVisible
    /\ nStarted = 2
    /\ nTyped >= 1
    /\ formInitial # <<>>
    /\ formInitial[1].categoryNameZh = "feixingqi"
    /\ form = defaultForm

(* C14: a submit on a draft that fails validation (a name empty or longer  *)
(* than 50 characters, sortOrder absent or below 1, status absent) emits   *)
(* neither confirm nor update:visible(false): the dialog stays open, the   *)
(* draft and the collection are unchanged.                                 *)
C14_InvalidSubmitRejected ==
    [][(lastOp' = "handleConfirm" /\
        (\/ form.categoryNameZh = "" \/ Len(form.categoryNameZh) > 50
         \/ form.categoryNameEn = "" \/ Len(form.categoryNameEn) > 50
         \/ form.sortOrder < 1
         \/ form.status = "")) =>
        /\ emitted' = <<>>
        /\ dialogVisible' /\ dialogVisible
        /\ form' = form
        /\ tableData' = tableData
        /\ pagination' = pagination
        /\ messages' = <<>>
        /\ LET long == "123456789012345678901234567890123456789012345678901"
               ok == [id |-> NoId, categoryNameZh |-> "X", categoryNameEn |-> "Y",
                      sortOrder |-> 1, status |-> "enabled"]
           IN /\ Len(long) = 51
              /\ validate(ok)
              /\ ~validate([ok EXCEPT !.categoryNameZh = long])
              /\ ~validate([ok EXCEPT !.categoryNameEn = long])
              /\ ~validate([ok EXCEPT !.categoryNameZh = ""])
              /\ ~validate([ok EXCEPT !.categoryNameEn = ""])
              /\ ~validate([ok EXCEPT !.sortOrder = 0])
              /\ ~validate([ok EXCEPT !.status = ""])
      ]_vars

\* an edit draft whose sortOrder was cleared has been submitted: still open
C14_Witness ==
    /\ lastOp = "handleConfirm"
    /\ emitted = <<>>
    /\ dialogVisible
    /\ dialogMode = "edit"
    /\ form.sortOrder = 0
    /\ form.categoryNameZh = "feixingqi"
    /\ tableData = initialTableData

(* C15: a submit on a draft that passes validation emits exactly one       *)
(* confirm event, whose payload equals the draft of that moment field by   *)
(* field, and after it update:visible(false), which closes the dialog.     *)
(* The payload is a value of its own: what the table does later with it    *)
(* (the record it became is replaced or deleted) never changes the draft,  *)
(* which only the dialog's own handlers and the next open write.           *)
C15_ValidSubmitEmitsCopy ==
    [][/\ (lastOp' = "handleConfirm" /\ validate(form)) =>
            /\ emitted' = << <<"confirm", form>>, <<"update:visible", FALSE>> >>
            /\ Cardinality({k \in 1..Len(emitted') : emitted'[k][1] = "confirm"}) = 1
            /\ emitted'[1][2].id = form.id
            /\ Fields(emitted'[1][2]) = Fields(form)
            /\ dialogVisible /\ ~dialogVisible'
       /\ form' # form =>
            lastOp' \in {"handleAdd", "handleEdit", "inputForm",
                         "handleConfirm", "handleCancel", "handleClose"}
      ]_vars

\* the draft "X" / "Y" of an add session was submitted: the event carries it,
\* the dialog is closed and its draft reset
C15_Witness ==
    /\ Committed("add")
    /\ ~dialogVisible
    /\ CommittedData.categoryNameZh = "X"
    /\ CommittedData.categoryNameEn = "Y"
    /\ form.categoryNameZh = ""
    /\ emitted[2] = <<"update:visible", FALSE>>

(* C16: cancel emits cancel and update:visible(false) and no confirm.  No  *)
(* step of a session that ends by cancel or dismiss -- the open, the       *)
(* inputs, the rejected submits, the cancel or dismiss itself -- changes   *)
(* the collection or the pagination state: they are as at the open.        *)
C16_CancelLeavesTable ==
    [][/\ lastOp' = "handleCancel" =>
            /\ emitted' = << <<"cancel">>, <<"update:visible", FALSE>> >>
            /\ \A k \in 1..Len(emitted') : emitted'[k][1] # "confirm"
            /\ ~dialogVisible'
       /\ lastOp' = "handleClose" =>
            /\ \A k \in 1..Len(emitted') : emitted'[k][1] # "confirm"
            /\ ~dialogVisible'
       /\ (\/ lastOp' \in {"handleAdd", "handleEdit", "inputForm",
                           "handleCancel", "handleClose"}
           \/ (lastOp' = "handleConfirm" /\ emitted' = <<>>)) =>
            /\ tableData' = tableData
            /\ pagination' = pagination
            /\ messages' = <<>>
      ]_vars

\* an add session with two inputs was cancelled: the table is as it started
C16_Witness ==
    /\ lastOp = "handleCancel"
    /\ ~dialogVisible
    /\ dialogMode = "add"
    /\ nTyped = 2
    /\ emitted[1] = <<"cancel">>
    /\ tableData = initialTableData
    /\ pagination = [currentPage |-> 1, pageSize |-> initialPageSize, jumpPage |-> 1]

(* C17: between the open of Edit(row) and a commit, a change of the draft  *)
(* changes neither the collection nor the initial data handed to the       *)
(* dialog.  A record of the collection keeps its field values until an     *)
(* edit-commit for its id is processed, and no handler of the dialog       *)
(* writes the initial data.                                                *)
C17_DraftIsPrivate ==
    [][/\ lastOp' = "inputForm" =>
            /\ tableData' = tableData
            /\ currentEditData' = currentEditData
       /\ lastOp' \in {"inputForm", "handleConfirm", "handleCancel", "handleClose"} =>
            currentEditData' = currentEditData
       /\ tableData' # tableData =>
            \A k \in 1..Len(tableData) : \A j \in 1..Len(tableData') :
                (tableData'[j].id = tableData[k].id /\ tableData'[j] # tableData[k]) =>
                    /\ CommitStep("edit")
                    /\ emitted'[1][2].id = tableData[k].id
      ]_vars

\* the draft of the row opened for edit was renamed "X": the row of the
\* collection and the initial data still carry the old name
C17_Witness ==
    /\ lastOp = "inputForm"
    /\ dialogVisible
    /\ dialogMode = "edit"
    /\ form.categoryNameZh = "X"
    /\ currentEditData # <<>>
    /\ currentEditData[1].id = form.id
    /\ currentEditData[1].categoryNameZh = "feixingqi"
    /\ tableData = initialTableData

(* C18: a confirm event is emitted only while the dialog is visible, so at *)
(* most once in a session (the confirm closes it), whatever submit clicks, *)
(* cancel or dismiss come with it; and the collection grows only by the    *)
(* one confirm of a visible add session.                                   *)
C18_OneConfirmPerSession ==
    [][/\ (\E k \in 1..Len(emitted') : emitted'[k][1] = "confirm") => dialogVisible
       /\ Len(tableData') > Len(tableData) => dialogVisible
      ]_vars

\* an add session that was opened once has put two records in the collection
C18_TwoRecordsFromOneSession ==
    /\ lastOp = "handleConfirm.closing"
    /\ dialogMode = "add"
    /\ nStarted = 2
    /\ Len(tableData) = 10
    /\ tableData[9].categoryNameZh = "X"
    /\ tableData[10].categoryNameZh = "feixingqi"

(* C19: a delete whose confirmation is accepted when no record has the     *)
(* row's id any more (it was removed while the confirmation was pending)   *)
(* changes nothing: collection, currentPage, pageSize and jumpPage are as  *)
(* before, and no success is reported.                                     *)
C19_StaleDeleteIsNoOp ==
    [][(lastOp' = "handleDelete.confirmed" /\ lastArg' \notin IdSet(tableData)) =>
        /\ tableData' = tableData
        /\ pagination' = pagination
        /\ messages' = <<>>
      ]_vars

\* two confirmations for the same row were accepted: the second found no row
C19_Witness ==
    /\ lastOp = "handleDelete.confirmed"
    /\ messages = <<>>
    /\ lastArg \notin IdSet(tableData)
    /\ Len(tableData) = 7
    /\ pendingDelete = EmptyBag
    /\ nStarted = 2

(* C20: after every table operation that assigns currentPage -- an         *)
(* add-commit, the step back of a delete, a click in the pager, a          *)
(* page-size change, an accepted jump -- jumpPage equals currentPage.      *)
C20_JumpPageInSync ==
    [][(\/ CommitStep("add")
        \/ (lastOp' = "handleDelete.confirmed"
              /\ pagination'.currentPage # pagination.currentPage)
        \/ lastOp' = "handleCurrentChange"
        \/ lastOp' = "handleSizeChange"
        \/ (lastOp' = "handleJump"
              /\ 1 <= pagination.jumpPage
              /\ pagination.jumpPage <= Ceil(Len(tableData), pagination.pageSize))) =>
        pagination'.jumpPage = pagination'.currentPage
      ]_vars

====
